---- MODULE Spec2Model ----
(***************************************************************************)
(* Model of calculateModelStats (src/components/model-viewer.tsx), the     *)
(* mesh analysis that turns a decoded scene graph into ModelStats.         *)
(*                                                                         *)
(* Numbers.  JavaScript numbers are modelled as tagged values: a finite    *)
(* value, NaN, +Infinity or -Infinity.  Finite values are exact integers   *)
(* in a fixed unit per quantity:                                           *)
(*   triangles        thirds of a triangle   (count / 3 is count thirds)   *)
(*   mesh volume      sixths of a unit cube  (x / 6 is x sixths)           *)
(*   surface area     1 / (2 * SqrtScale)    (sqrt is kept to SqrtScale)   *)
(*   returned dimensions, surfaceArea: hundredths; returned volume:        *)
(*   thousandths (these are the digits Math.round(x * 10^k) / 10^k keeps). *)
(* Sums and products are exact; the rounding of floating-point sums is not *)
(* modelled.  A component read past the end of a buffer is undefined and   *)
(* turns every value computed from it into NaN.                            *)
(*                                                                         *)
(* three.js.  Box3.setFromObject(scene) is called with precise = false:    *)
(* per mesh, the local bounding box of the position attribute is           *)
(* transformed by matrixWorld (the box of its 8 transformed corners) and   *)
(* united with the result; a box that stays empty keeps min = +Infinity    *)
(* and max = -Infinity, and getSize of an empty box is (0, 0, 0).          *)
(*                                                                         *)
(* Specifications.  Spec is calculateModelStats called on a scene, and     *)
(* called again; SpecRound the rounding of its return statement; SpecCard  *)
(* (SpecCardFair under the browser's scheduling) PrintPreparationCard;     *)
(* SpecViewer the loading effect of ModelViewer; SpecRoutes the credit-    *)
(* spending generation routes; SpecHook the Stripe webhook.  Each has its  *)
(* own variables; the variables of the others stay at their idle values.   *)
(***************************************************************************)
EXTENDS Integers, Sequences, FiniteSets

\* ------------------------------------------------------------ bounds ----
\* nodes below the scene root
MaxMeshes == 2
\* triangles (whole, or a trailing partial one) in all index buffers of a scene
MaxTris == 2
\* uniform scale factors 1..MaxScale
MaxScale == 2
\* Math.sqrt is modelled to 1/SqrtScale
SqrtScale == 1000

\* ----------------------------------------------------- number model ----
Fin(n) == [k |-> "fin", v |-> n]
NaN == [k |-> "nan", v |-> 0]
PosInf == [k |-> "+inf", v |-> 0]
NegInf == [k |-> "-inf", v |-> 0]

IsFin(a) == a.k = "fin"

\* a < b on Box3 coordinates (finite or infinite, never NaN)
NumLess(a, b) ==
  IF a.k = "fin" /\ b.k = "fin" THEN a.v < b.v
  ELSE IF a.k = "-inf" THEN b.k # "-inf"
  ELSE IF b.k = "+inf" THEN a.k # "+inf"
  ELSE FALSE

NumMin(a, b) == IF NumLess(b, a) THEN b ELSE a
NumMax(a, b) == IF NumLess(a, b) THEN b ELSE a

\* a + b, with NaN absorbing (the operands are finite or NaN)
NumAdd(a, b) == IF IsFin(a) /\ IsFin(b) THEN Fin(a.v + b.v) ELSE NaN

Abs(n) == IF n < 0 THEN -n ELSE n

\* Math.abs
MathAbs(a) == IF IsFin(a) THEN Fin(Abs(a.v)) ELSE a

RoundDiv_HalfDown(num, den) == 0 - ((den - 2 * num) \div (2 * den))

\* Math.round(num / den) for den > 0: floor(x + 1/2)
RoundDiv(num, den) == (2 * num + den) \div (2 * den)

RECURSIVE ISqrt(_)
\* floor of the square root
ISqrt(x) ==
  IF x < 2 THEN x
  ELSE LET r == 2 * ISqrt(x \div 4)
       IN IF (r + 1) * (r + 1) <= x THEN r + 1 ELSE r

\* ---------------------------------------------------------- vectors ----
Dot(a, b) == a[1] * b[1] + a[2] * b[2] + a[3] * b[3]

Cross(a, b) == << a[2] * b[3] - a[3] * b[2],
                  a[3] * b[1] - a[1] * b[3],
                  a[1] * b[2] - a[2] * b[1] >>

SubVectors(a, b) == << a[1] - b[1], a[2] - b[2], a[3] - b[3] >>

\* Vector3.length(), in units of 1/SqrtScale
Length(a) == ISqrt(Dot(a, a) * SqrtScale * SqrtScale)

\* Vector3.applyMatrix4 for an affine matrix [m: rows, t: translation]
ApplyMatrix4(p, mw) ==
  << Dot(mw.m[1], p) + mw.t[1], Dot(mw.m[2], p) + mw.t[2], Dot(mw.m[3], p) + mw.t[3] >>

\* ------------------------------------------------------ scene graph ----
\* A node of the scene graph in traversal order.  A Mesh carries
\* geometry.attributes.position (a sequence of points), geometry.index
\* (hasIndex, index: null when hasIndex is FALSE) and its matrixWorld.
Identity == [m |-> << <<1, 0, 0>>, <<0, 1, 0>>, <<0, 0, 1>> >>, t |-> <<0, 0, 0>>]
\* uniform scale 2 with a translation
ScaleTranslate == [m |-> << <<2, 0, 0>>, <<0, 2, 0>>, <<0, 0, 2>> >>, t |-> <<1, 0, 0>>]
\* rotation by 45 degrees about z with uniform scale sqrt(2)
RotateZ == [m |-> << <<1, -1, 0>>, <<1, 1, 0>>, <<0, 0, 1>> >>, t |-> <<0, 0, 0>>]

Transforms == {Identity, ScaleTranslate, RotateZ}

Tri == << <<1, 0, 0>>, <<0, 1, 0>>, <<0, 0, 1>> >>
Quad == << <<0, 0, 0>>, <<1, 0, 0>>, <<0, 1, 0>>, <<0, 0, 1>> >>

GroupNode == [isMesh |-> FALSE, position |-> <<>>, hasIndex |-> FALSE, index |-> <<>>,
              matrixWorld |-> Identity]

Mesh(p, h, ix, mw) ==
  [isMesh |-> TRUE, position |-> p, hasIndex |-> h, index |-> ix, matrixWorld |-> mw]

\* index triples: both windings of one face, and two triangles that repeat an index
Triangles == { <<0, 1, 2>>, <<0, 2, 1>>, <<0, 0, 1>>, <<0, 0, 2>> }
\* a trailing partial triple (index-buffer length not a multiple of 3)
Tails == { <<0>>, <<0, 1>> }

RECURSIVE WholeBuffers(_)
\* the index buffers of exactly k whole triangles
WholeBuffers(k) ==
  IF k = 0 THEN { <<>> }
  ELSE { b \o t : t \in Triangles, b \in WholeBuffers(k - 1) }

\* the index buffers of exactly k triangles, the last one possibly partial
IndexBuffers(k) ==
  IF k = 0 THEN { <<>> }
  ELSE WholeBuffers(k) \cup { b \o t : t \in Tails, b \in WholeBuffers(k - 1) }

\* nodes whose index buffer holds exactly k triangles; geometry fixed to Tri
TopologyNodes(k) ==
  IF k = 0
  THEN { GroupNode, Mesh(Tri, FALSE, <<>>, Identity), Mesh(Tri, TRUE, <<>>, Identity) }
  ELSE { Mesh(Tri, TRUE, b, Identity) : b \in IndexBuffers(k) }

RECURSIVE TopologyScenesOf(_, _)
\* scenes of n nodes with at most k triangles in their index buffers
TopologyScenesOf(n, k) ==
  IF n = 0 THEN { <<>> }
  ELSE UNION { { <<nd>> \o s : nd \in TopologyNodes(j), s \in TopologyScenesOf(n - 1, k - j) } :
               j \in 0..k }

TopologyScenes == UNION { TopologyScenesOf(n, MaxTris) : n \in 0..MaxMeshes }

\* meshes that vary the vertex buffer, the transform and the winding: the
\* face Tri under every transform, un-indexed and in both windings; the
\* 4-vertex buffer and the empty buffer, un-indexed and indexed
GeometryNodes ==
  { Mesh(Tri, FALSE, <<>>, mw) : mw \in Transforms }
  \cup { Mesh(Tri, TRUE, t, mw) : t \in { <<0, 1, 2>>, <<0, 2, 1>> }, mw \in Transforms }
  \cup { Mesh(p, FALSE, <<>>, Identity) : p \in { <<>>, Quad } }
  \cup { Mesh(p, TRUE, <<0, 1, 2>>, Identity) : p \in { <<>>, Quad } }

RECURSIVE GeometryScenesOf(_)
GeometryScenesOf(n) ==
  IF n = 0 THEN { <<>> }
  ELSE { <<nd>> \o s : nd \in GeometryNodes, s \in GeometryScenesOf(n - 1) }

GeometryScenes == UNION { GeometryScenesOf(n) : n \in 0..MaxMeshes }

\* a unit cube with corner o: vertex j has x = o.x + (j mod 2),
\* y = o.y + ((j div 2) mod 2), z = o.z + (j div 4), for j = 0..7
CubeVertices(o) ==
  [j \in 1..8 |-> << o[1] + ((j - 1) % 2),
                     o[2] + (((j - 1) \div 2) % 2),
                     o[3] + ((j - 1) \div 4) >>]

\* the 12 triangles of the cube, two per face, wound outward
CubeIndex ==
  << 0, 2, 3,  0, 3, 1,  4, 5, 7,  4, 7, 6,  0, 1, 5,  0, 5, 4,
     2, 6, 7,  2, 7, 3,  0, 4, 6,  0, 6, 2,  1, 3, 7,  1, 7, 5 >>

CubeOrigins == { <<0, 0, 0>>, <<-1, -1, -1>>, <<2, 0, 1>> }

UnitCube(o) == Mesh(CubeVertices(o), TRUE, CubeIndex, Identity)

\* a scene that is one unit cube, alone or under a root group
CubeScenes ==
  { <<UnitCube(o)>> : o \in CubeOrigins } \cup { <<GroupNode, UnitCube(o)>> : o \in CubeOrigins }

\* the tetrahedron on Quad: closed and wound outward, closed and wound
\* inward, and open (one face missing)
TetraIndex == << 0, 2, 1,  0, 1, 3,  0, 3, 2,  1, 2, 3 >>
TetraInwardIndex == << 0, 1, 2,  0, 3, 1,  0, 2, 3,  1, 3, 2 >>
OpenTetraIndex == << 0, 1, 3,  0, 3, 2,  1, 2, 3 >>

SolidNodes ==
  { Mesh(Quad, TRUE, ix, Identity) : ix \in { TetraIndex, TetraInwardIndex, OpenTetraIndex } }
  \cup { Mesh(Tri, FALSE, <<>>, Identity) }

RECURSIVE SolidScenesOf(_)
SolidScenesOf(n) ==
  IF n = 0 THEN { <<>> }
  ELSE { <<nd>> \o s : nd \in SolidNodes, s \in SolidScenesOf(n - 1) }

\* scenes of MaxMeshes submeshes drawn from the solids
SolidScenes == SolidScenesOf(MaxMeshes)

\* a strip of 13 vertices on the x axis and two triangles over them, one
\* with a two-digit index, one that repeats an index: 10 * 1 + 12 and
\* 10 * 2 + 2 are the same number
WideVertices == [j \in 1..13 |-> << j - 1, 0, 0 >>]
WideIndex == << 1, 12, 2,  2, 2, 1 >>
WideScenes == { << Mesh(WideVertices, TRUE, WideIndex, Identity) >> }

\* the closed tetrahedron with every face on three vertices of its own: the
\* positions of TetraIndex's corners, referenced by the indices 0..11
SplitVertices == [j \in 1..12 |-> Quad[TetraIndex[j] + 1]]
SplitIndex == [j \in 1..12 |-> j - 1]
SplitScenes == { << Mesh(SplitVertices, TRUE, SplitIndex, Identity) >> }

Scenes ==
  TopologyScenes \cup GeometryScenes \cup CubeScenes \cup SolidScenes \cup WideScenes
    \cup SplitScenes

\* ------------------------------------------------------------- Box3 ----
\* new THREE.Box3(): the empty box, min = +Infinity, max = -Infinity
EmptyBox == [min |-> <<PosInf, PosInf, PosInf>>, max |-> <<NegInf, NegInf, NegInf>>]

\* Box3.isEmpty
IsEmpty(box) == \E a \in 1..3 : NumLess(box.max[a], box.min[a])

\* Box3.expandByPoint
ExpandByPoint(box, p) ==
  [min |-> [a \in 1..3 |-> NumMin(box.min[a], Fin(p[a]))],
   max |-> [a \in 1..3 |-> NumMax(box.max[a], Fin(p[a]))]]

RECURSIVE ExpandByPoints(_, _)
ExpandByPoints(box, points) ==
  IF points = <<>> THEN box
  ELSE ExpandByPoints(ExpandByPoint(box, Head(points)), Tail(points))

\* Box3.setFromPoints / BufferGeometry.computeBoundingBox
SetFromPoints(points) == ExpandByPoints(EmptyBox, points)

\* the 8 corners of a non-empty box
Corners(box) ==
  LET lo == [a \in 1..3 |-> box.min[a].v]
      hi == [a \in 1..3 |-> box.max[a].v]
  IN << <<lo[1], lo[2], lo[3]>>, <<lo[1], lo[2], hi[3]>>, <<lo[1], hi[2], lo[3]>>,
        <<lo[1], hi[2], hi[3]>>, <<hi[1], lo[2], lo[3]>>, <<hi[1], lo[2], hi[3]>>,
        <<hi[1], hi[2], lo[3]>>, <<hi[1], hi[2], hi[3]>> >>

\* Box3.applyMatrix4: an empty box is returned as is; otherwise the box of the
\* 8 transformed corners
BoxApplyMatrix4(box, mw) ==
  IF IsEmpty(box) THEN box
  ELSE LET c == Corners(box)
       IN SetFromPoints([n \in 1..8 |-> ApplyMatrix4(c[n], mw)])

\* Box3.union
Union(a, b) ==
  [min |-> [x \in 1..3 |-> NumMin(a.min[x], b.min[x])],
   max |-> [x \in 1..3 |-> NumMax(a.max[x], b.max[x])]]

\* Box3.expandByObject for one node (precise = false): the node's local
\* bounding box, transformed by matrixWorld, is united with the box
ExpandByObject(box, node) ==
  IF node.isMesh
  THEN Union(box, BoxApplyMatrix4(SetFromPoints(node.position), node.matrixWorld))
  ELSE box

RECURSIVE ExpandByNodes(_, _)
ExpandByNodes(box, nodes) ==
  IF nodes = <<>> THEN box
  ELSE ExpandByNodes(ExpandByObject(box, Head(nodes)), Tail(nodes))

\* new THREE.Box3().setFromObject(scene)
SetFromObject(sc) == ExpandByNodes(EmptyBox, sc)

\* Box3.getSize
GetSize(box) ==
  IF IsEmpty(box) THEN <<0, 0, 0>>
  ELSE [a \in 1..3 |-> box.max[a].v - box.min[a].v]

\* ------------------------------------------------- buffer reads ----
\* An array read yields <<x>> for a stored x and <<>> (undefined) past the end.
Undefined == <<>>

\* arr[i], i counted from 0 (geometry.index.array[i], index.getX(i))
ArrayGet(arr, i) == IF i < Len(arr) THEN <<arr[i + 1]>> ELSE Undefined

\* Vector3.fromBufferAttribute(pos, ix): the components are undefined when ix
\* is undefined or past the end of pos
FromBufferAttribute(pos, ix) ==
  IF ix # Undefined /\ ix[1] < Len(pos)
  THEN [ok |-> TRUE, v |-> pos[ix[1] + 1]]
  ELSE [ok |-> FALSE, v |-> <<0, 0, 0>>]

\* ------------------------------------------- volume and surface area ----
SignedVolume_Unsigned(v0, v1, v2) ==
  IF v0.ok /\ v1.ok /\ v2.ok THEN Fin(Abs(Dot(v0.v, Cross(v1.v, v2.v)))) ELSE NaN

\* v0.dot(v1.cross(v2)) / 6, in sixths; NaN when a component is undefined
SignedVolume(v0, v1, v2) ==
  IF v0.ok /\ v1.ok /\ v2.ok THEN Fin(Dot(v0.v, Cross(v1.v, v2.v))) ELSE NaN

\* edge1.cross(edge2).length() / 2, in units of 1/(2 * SqrtScale)
TriangleArea(v0, v1, v2) ==
  IF v0.ok /\ v1.ok /\ v2.ok
  THEN Fin(Length(Cross(SubVectors(v1.v, v0.v), SubVectors(v2.v, v0.v))))
  ELSE NaN

\* v1.cross(v2): Vector3.cross sets the receiver to the product, so after
\* line 114 the vector v1 holds v1 x v2
CrossInPlace(v1, v2) == [ok |-> v1.ok /\ v2.ok, v |-> Cross(v1.v, v2.v)]

RECURSIVE VolumeLoop(_, _, _, _)
\* for (let i = 0; i < index.count; i += 3) { ... }
\* st = [meshVolume, totalSurfaceArea]; the area of lines 116-118 reads v1
\* after v1.cross(v2) has overwritten it
VolumeLoop(pos, index, i, st) ==
  IF i >= Len(index) THEN st
  ELSE LET v0 == FromBufferAttribute(pos, ArrayGet(index, i))
           v1 == FromBufferAttribute(pos, ArrayGet(index, i + 1))
           v2 == FromBufferAttribute(pos, ArrayGet(index, i + 2))
           v1After == CrossInPlace(v1, v2)
       IN VolumeLoop(pos, index, i + 3,
            [meshVolume |-> NumAdd(st.meshVolume, SignedVolume(v0, v1, v2)),
             totalSurfaceArea |->
               NumAdd(st.totalSurfaceArea, TriangleArea(v0, v1After, v2))])

\* --------------------------------------------------------- edge map ----
DigitChars == <<"0", "1", "2", "3", "4", "5", "6", "7", "8", "9">>

RECURSIVE Digits(_)
\* the decimal digits of n >= 0
Digits(n) ==
  IF n < 10 THEN <<DigitChars[n + 1]>>
  ELSE Digits(n \div 10) \o <<DigitChars[(n % 10) + 1]>>

\* `${x}` of an array element
ToString(x) == IF x = Undefined THEN <<"undefined">> ELSE Digits(x[1])

\* v1 < v2: false when either side is undefined
Less(v1, v2) == v1 # Undefined /\ v2 # Undefined /\ v1[1] < v2[1]

EdgeKey_Packed(v1, v2) ==
  IF v1 = Undefined \/ v2 = Undefined THEN <<"NaN">>
  ELSE IF v1[1] < v2[1] THEN Digits(10 * v1[1] + v2[1]) ELSE Digits(10 * v2[1] + v1[1])

\* v1 < v2 ? `${v1}-${v2}` : `${v2}-${v1}`
EdgeKey(v1, v2) ==
  IF Less(v1, v2) THEN ToString(v1) \o <<"-">> \o ToString(v2)
  ELSE ToString(v2) \o <<"-">> \o ToString(v1)

\* A Map<string, number> is the sequence of its entries in insertion order.
\* edges.get(key) || 0
MapGet(edges, key) ==
  IF \E n \in 1..Len(edges) : edges[n].key = key
  THEN edges[CHOOSE n \in 1..Len(edges) : edges[n].key = key].count
  ELSE 0

\* edges.set(key, count)
MapSet(edges, key, count) ==
  IF \E n \in 1..Len(edges) : edges[n].key = key
  THEN [n \in 1..Len(edges) |->
          IF edges[n].key = key THEN [key |-> key, count |-> count] ELSE edges[n]]
  ELSE Append(edges, [key |-> key, count |-> count])

\* edges.set(key, (edges.get(key) || 0) + 1)
CountEdge(edges, v1, v2) ==
  LET key == EdgeKey(v1, v2) IN MapSet(edges, key, MapGet(edges, key) + 1)

RECURSIVE EdgeLoop(_, _, _)
\* for (let i = 0; i < idx.length; i += 3) { [[a, b], [b, c], [c, a]].forEach(...) }
EdgeLoop(idx, i, edges) ==
  IF i >= Len(idx) THEN edges
  ELSE LET a == ArrayGet(idx, i)
           b == ArrayGet(idx, i + 1)
           c == ArrayGet(idx, i + 2)
       IN EdgeLoop(idx, i + 3, CountEdge(CountEdge(CountEdge(edges, a, b), b, c), c, a))

\* a check that lets an edge shared by more than two triangles pass
BadCount_BoundaryOnly(count) == count < 2

\* count !== 2
BadCount(count) == count # 2

ScanCounts_LastDecides(edges, n, w) ==
  IF Len(edges) = 0 THEN w ELSE ~BadCount(edges[Len(edges)].count)

RECURSIVE ScanCounts(_, _, _)
\* for (const count of edges.values()) { if (count !== 2) { isWatertight = false; break; } }
ScanCounts(edges, n, w) ==
  IF n > Len(edges) THEN w
  ELSE IF BadCount(edges[n].count) THEN FALSE
  ELSE ScanCounts(edges, n + 1, w)

\* ------------------------------------------------- the traversal ----
\* let triangles = 0; ... let isWatertight = true;   (thirds, sixths: see top)
InitialLocals ==
  [triangles |-> 0, vertices |-> 0, meshCount |-> 0, totalVolume |-> Fin(0),
   totalSurfaceArea |-> Fin(0), isWatertight |-> TRUE]

\* a count that ignores the index buffer
TriangleThirds_PositionOnly(child) == Len(child.position)

\* a count that adds the vertex buffer to the index buffer
TriangleThirds_Both(child) ==
  (IF child.hasIndex THEN Len(child.index) ELSE 0) + Len(child.position)

\* index.count / 3, else position.count / 3, in thirds
TriangleThirds(child) ==
  IF child.hasIndex THEN Len(child.index) ELSE Len(child.position)

\* an accumulation that keeps the sign of the submesh's sum
AddMeshVolume_Signed(totalVolume, meshVolume) == NumAdd(totalVolume, meshVolume)

AddMeshVolume_Assign(totalVolume, meshVolume) == MathAbs(meshVolume)

\* totalVolume += Math.abs(meshVolume)
AddMeshVolume(totalVolume, meshVolume) == NumAdd(totalVolume, MathAbs(meshVolume))

\* the index buffer with every index replaced by the first index whose vertex
\* has the same position
WeldedIndex(pos, idx) ==
  [j \in 1..Len(idx) |->
     IF idx[j] < Len(pos)
     THEN CHOOSE k \in 0..idx[j] :
            /\ pos[k + 1] = pos[idx[j] + 1]
            /\ \A h \in 0..(k - 1) : pos[h + 1] # pos[idx[j] + 1]
     ELSE idx[j]]

\* an edge check that keys the edges by vertex positions
CheckEdges_Welded(child, w) ==
  IF child.hasIndex
  THEN ScanCounts(EdgeLoop(WeldedIndex(child.position, child.index), 0, <<>>), 1, w)
  ELSE w

CheckEdges_PerMesh(child, w) ==
  IF child.hasIndex THEN ScanCounts(EdgeLoop(child.index, 0, <<>>), 1, TRUE) ELSE w

\* the isWatertight left by the edge check of one node
CheckEdges(child, w) ==
  IF child.hasIndex THEN ScanCounts(EdgeLoop(child.index, 0, <<>>), 1, w) ELSE w

Visit_SoupAsTriangles(l, child) ==
  IF ~child.isMesh THEN l
  ELSE LET ix == IF child.hasIndex THEN child.index
                 ELSE [j \in 1..Len(child.position) |-> j - 1]
           loop == VolumeLoop(child.position, ix, 0,
                     [meshVolume |-> Fin(0), totalSurfaceArea |-> l.totalSurfaceArea])
       IN [triangles |-> l.triangles + TriangleThirds(child),
           vertices |-> l.vertices + Len(child.position),
           meshCount |-> l.meshCount + 1,
           totalVolume |-> AddMeshVolume(l.totalVolume, loop.meshVolume),
           totalSurfaceArea |-> loop.totalSurfaceArea,
           isWatertight |-> CheckEdges(child, l.isWatertight)]

\* the callback of scene.traverse for one node; every Mesh of the model has a
\* position attribute (possibly of length 0), so the tests
\* `geometry.attributes.position` and `pos` are true
Visit(l, child) ==
  IF ~child.isMesh THEN l
  ELSE LET loop == IF child.hasIndex
                   THEN VolumeLoop(child.position, child.index, 0,
                          [meshVolume |-> Fin(0), totalSurfaceArea |-> l.totalSurfaceArea])
                   ELSE [meshVolume |-> Fin(0), totalSurfaceArea |-> l.totalSurfaceArea]
       IN [triangles |-> l.triangles + TriangleThirds(child),
           vertices |-> l.vertices + Len(child.position),
           meshCount |-> l.meshCount + 1,
           totalVolume |-> IF child.hasIndex
                           THEN AddMeshVolume(l.totalVolume, loop.meshVolume)
                           ELSE l.totalVolume,
           totalSurfaceArea |-> loop.totalSurfaceArea,
           isWatertight |-> CheckEdges(child, l.isWatertight)]

RECURSIVE Traverse(_, _)
\* scene.traverse(callback) from the locals l
Traverse(l, nodes) ==
  IF nodes = <<>> THEN l ELSE Traverse(Visit(l, Head(nodes)), Tail(nodes))

\* Math.round(x * 10^k) / 10^k of a value kept as num / den, in units of 10^-k
MathRound(x, scale, den) == IF IsFin(x) THEN Fin(RoundDiv(x.v * scale, den)) ELSE x

ModelStats_SizeFromBuffers(l, box, sz, fs) ==
  [triangles |-> RoundDiv(l.triangles, 3),
   vertices |-> l.vertices,
   meshCount |-> l.meshCount,
   dimensions |-> [a \in 1..3 |-> RoundDiv(sz[a] * 100, 1)],
   volume |-> MathRound(l.totalVolume, 1000, 6),
   surfaceArea |-> MathRound(l.totalSurfaceArea, 100, 2 * SqrtScale),
   fileSize |-> l.vertices,
   isWatertight |-> l.isWatertight,
   boundingBox |-> box]

\* the returned ModelStats record
ModelStats(l, box, sz, fs) ==
  [triangles |-> RoundDiv(l.triangles, 3),
   vertices |-> l.vertices,
   meshCount |-> l.meshCount,
   dimensions |-> [a \in 1..3 |-> RoundDiv(sz[a] * 100, 1)],
   volume |-> MathRound(l.totalVolume, 1000, 6),
   surfaceArea |-> MathRound(l.totalSurfaceArea, 100, 2 * SqrtScale),
   fileSize |-> fs,
   isWatertight |-> l.isWatertight,
   boundingBox |-> box]

\* calculateModelStats as a function of its arguments
calculateModelStats(sc, fs) ==
  LET box == SetFromObject(sc)
  IN ModelStats(Traverse(InitialLocals, sc), box, GetSize(box), fs)

\* ------------------------------------------------------ the program ----
VARIABLES scene, fileSize, pc, next, triangles, vertices, meshCount, totalVolume,
          totalSurfaceArea, isWatertight, boundingBox, size, result,
          previous, previousFileSize, unrounded, rounded,
          stats, remeshStatus, remeshProgress, remeshTaskId, posting, inFlight,
          completeCalls, viewer, effects, modelStats,
          requests, db, meshyTasks,
          session, deliveries, account

vars == <<scene, fileSize, pc, next, triangles, vertices, meshCount, totalVolume,
          totalSurfaceArea, isWatertight, boundingBox, size, result,
          previous, previousFileSize, unrounded, rounded,
          stats, remeshStatus, remeshProgress, remeshTaskId, posting, inFlight,
          completeCalls, viewer, effects, modelStats,
          requests, db, meshyTasks,
          session, deliveries, account>>

\* the variables of the presentation-rounding specification
roundVars == <<unrounded, rounded>>

\* the variables of PrintPreparationCard: the stats prop, the remesh state
\* of lines 71-73, the POST requests of handleRemesh awaiting their response,
\* per remesh task the poll requests awaiting theirs, and per remesh task
\* the number of calls onRemeshComplete(task) made so far
cardVars ==
  <<stats, remeshStatus, remeshProgress, remeshTaskId, posting, inFlight, completeCalls>>

\* the variables of calculateModelStats and of its caller
programVars ==
  <<scene, fileSize, pc, next, triangles, vertices, meshCount, totalVolume,
    totalSurfaceArea, isWatertight, boundingBox, size, result, previous,
    previousFileSize>>

Locals ==
  [triangles |-> triangles, vertices |-> vertices, meshCount |-> meshCount,
   totalVolume |-> totalVolume, totalSurfaceArea |-> totalSurfaceArea,
   isWatertight |-> isWatertight]

NoResult == [returned |-> FALSE]
NoValue == [given |-> FALSE]
NoStats == [loaded |-> FALSE]

\* remesh tasks the model lets the server create, poll requests it lets
\* overlap, and the steps of the reported progress
MaxTasks == 2
MaxInFlight == 2
Progresses == {0, 50, 100}

\* useState("idle"), useState(0), useState(null); stats is null until the
\* viewer reports (page.tsx line 135)
CardMounted ==
  /\ stats = NoStats
  /\ remeshStatus = "idle"
  /\ remeshProgress = 0
  /\ remeshTaskId = 0
  /\ posting = 0
  /\ inFlight = [t \in 1..MaxTasks |-> 0]
  /\ completeCalls = [t \in 1..MaxTasks |-> 0]

\* the variables of ModelViewer: its props and state, the runs of its
\* loading effect, and the parent's modelStats (page.tsx line 135)
viewerVars == <<viewer, effects, modelStats>>

\* no viewer is rendered
ViewerIdle ==
  /\ viewer = [rendered |-> FALSE]
  /\ effects = <<>>
  /\ modelStats = 0

\* the variables of the generation routes: the POST requests being handled,
\* the user's row and the numbers of Generation and Transaction rows, and
\* the tasks created at the upstream service
routeVars == <<requests, db, meshyTasks>>

\* no request has been made
RoutesIdle ==
  /\ requests = <<>>
  /\ db = [credits |-> 0, generations |-> 0, transactions |-> 0]
  /\ meshyTasks = 0

\* the variables of the Stripe webhook: the checkout session of the event,
\* the deliveries of the event being handled, and what the database holds
\* for the session's user
hookVars == <<session, deliveries, account>>

\* no checkout session has been completed
HookIdle ==
  /\ session = [credits |-> 0]
  /\ deliveries = <<>>
  /\ account = [credits |-> 0, purchases |-> 0, packages |-> 0]

\* no rounding input is given
RoundIdle == unrounded = NoValue /\ rounded = NoValue

\* arrayBuffer.byteLength of a non-empty file
FileSizes == {1, 2}

\* entry of calculateModelStats(scene, fileSize); previous is the record an
\* earlier call on the same scene returned, previousFileSize its argument.
\* The first call is given a file of one byte, the second (CallAgain) a file
\* of any of FileSizes.
Init ==
  /\ scene \in Scenes
  /\ fileSize = 1
  /\ pc = "bounds"
  /\ next = 1
  /\ triangles = InitialLocals.triangles
  /\ vertices = InitialLocals.vertices
  /\ meshCount = InitialLocals.meshCount
  /\ totalVolume = InitialLocals.totalVolume
  /\ totalSurfaceArea = InitialLocals.totalSurfaceArea
  /\ isWatertight = InitialLocals.isWatertight
  /\ boundingBox = EmptyBox
  /\ size = <<0, 0, 0>>
  /\ result = NoResult
  /\ previous = NoResult
  /\ previousFileSize = 0
  /\ RoundIdle
  /\ CardMounted
  /\ ViewerIdle
  /\ RoutesIdle
  /\ HookIdle

\* const boundingBox = new THREE.Box3().setFromObject(scene); const size = ...
ComputeBounds ==
  /\ pc = "bounds"
  /\ boundingBox' = SetFromObject(scene)
  /\ size' = GetSize(boundingBox')
  /\ pc' = "traverse"
  /\ UNCHANGED <<scene, fileSize, next, triangles, vertices, meshCount, totalVolume,
                 totalSurfaceArea, isWatertight, result, previous, previousFileSize,
                 roundVars, cardVars, viewerVars, routeVars, hookVars>>

BuffersAfterVisit_WriteBack(sc, n) ==
  IF sc[n].isMesh /\ sc[n].hasIndex /\ Len(sc[n].index) >= 3
     /\ sc[n].index[2] < Len(sc[n].position) /\ sc[n].index[3] < Len(sc[n].position)
  THEN [sc EXCEPT ![n].position[sc[n].index[2] + 1] =
          Cross(sc[n].position[sc[n].index[2] + 1], sc[n].position[sc[n].index[3] + 1])]
  ELSE sc

\* the scene after the callback has run on node n: the callback only reads
\* the attributes (fromBufferAttribute and getX copy components out, line
\* 128 reads idx[i]); v1.cross(v2) writes the local Vector3 v1, not the buffer
BuffersAfterVisit(sc, n) == sc

\* one call of the traverse callback
VisitChild ==
  /\ pc = "traverse"
  /\ next <= Len(scene)
  /\ \E l \in { Visit(Locals, scene[next]) } :
        /\ triangles' = l.triangles
        /\ vertices' = l.vertices
        /\ meshCount' = l.meshCount
        /\ totalVolume' = l.totalVolume
        /\ totalSurfaceArea' = l.totalSurfaceArea
        /\ isWatertight' = l.isWatertight
  /\ next' = next + 1
  /\ scene' = BuffersAfterVisit(scene, next)
  /\ UNCHANGED <<fileSize, pc, boundingBox, size, result, previous, previousFileSize,
                 roundVars, cardVars, viewerVars, routeVars, hookVars>>

\* return { triangles: Math.round(triangles), ... }
Return ==
  /\ pc = "traverse"
  /\ next > Len(scene)
  /\ result' = ModelStats(Locals, boundingBox, size, fileSize)
  /\ pc' = "done"
  /\ UNCHANGED <<scene, fileSize, next, triangles, vertices, meshCount, totalVolume,
                 totalSurfaceArea, isWatertight, boundingBox, size, previous,
                 previousFileSize, roundVars, cardVars, viewerVars, routeVars, hookVars>>

DeclareLocals_Static(stale) == stale

\* the accumulators are declared with `let` inside the function (lines
\* 75-80): a call starts from fresh bindings, whatever an earlier call left
DeclareLocals(stale) == InitialLocals

\* a second call calculateModelStats(scene, fileSize') on the scene the first
\* call was given: the caller keeps the first record, and the function's
\* locals are declared afresh (lines 75-83)
CallAgain ==
  /\ pc = "done"
  /\ previous = NoResult
  /\ previous' = result
  /\ previousFileSize' = fileSize
  /\ fileSize' \in FileSizes
  /\ pc' = "bounds"
  /\ next' = 1
  /\ LET l == DeclareLocals(Locals)
     IN /\ triangles' = l.triangles
        /\ vertices' = l.vertices
        /\ meshCount' = l.meshCount
        /\ totalVolume' = l.totalVolume
        /\ totalSurfaceArea' = l.totalSurfaceArea
        /\ isWatertight' = l.isWatertight
  /\ boundingBox' = EmptyBox
  /\ size' = <<0, 0, 0>>
  /\ result' = NoResult
  /\ UNCHANGED <<scene, roundVars, cardVars, viewerVars, routeVars, hookVars>>

Next == ComputeBounds \/ VisitChild \/ Return \/ CallAgain

Spec == Init /\ [][Next]_vars

Returned == pc = "done"

\* calculateModelStats on the empty scene, stopped at the statement `at`
ProgramAt(at) ==
  /\ scene = <<>>
  /\ fileSize = 1
  /\ pc = at
  /\ next = 1
  /\ triangles = InitialLocals.triangles
  /\ vertices = InitialLocals.vertices
  /\ meshCount = InitialLocals.meshCount
  /\ totalVolume = InitialLocals.totalVolume
  /\ totalSurfaceArea = InitialLocals.totalSurfaceArea
  /\ isWatertight = InitialLocals.isWatertight
  /\ boundingBox = EmptyBox
  /\ size = <<0, 0, 0>>
  /\ result = NoResult
  /\ previous = NoResult
  /\ previousFileSize = 0

\* ------------------------------------------ presentation rounding ----
\* The return statement alone, on unrounded values num / den drawn from a
\* grid finer than the one integer coordinates give (eighths and sixteenths:
\* binary fractions, which a double holds exactly and whose products with 100
\* and 1000 are exact, so that exact halves of the last kept digit occur).
\* The accumulators are never negative, so the grid starts at 0.
MaxNumerator == 40
Denominators == {8, 16}
Decimals == {2, 3}
Pow10(d) == IF d = 2 THEN 100 ELSE 1000

InitRound ==
  /\ unrounded \in [num : 0..MaxNumerator, den : Denominators, decimals : Decimals]
  /\ rounded = NoValue
  /\ ProgramAt("return")
  /\ CardMounted
  /\ ViewerIdle
  /\ RoutesIdle
  /\ HookIdle

\* Math.round(x * 100) / 100 or Math.round(x * 1000) / 1000 for x = num / den,
\* and the record of lines 144-158 for accumulators of num model units each
RoundValue ==
  /\ rounded = NoValue
  /\ rounded' =
       [value |-> MathRound(Fin(unrounded.num), Pow10(unrounded.decimals), unrounded.den),
        stats |-> ModelStats([InitialLocals EXCEPT
                                !.totalVolume = Fin(unrounded.num),
                                !.totalSurfaceArea = Fin(unrounded.num)],
                             EmptyBox, <<unrounded.num, unrounded.num, unrounded.num>>,
                             fileSize)]
  /\ UNCHANGED <<unrounded, programVars, cardVars, viewerVars, routeVars, hookVars>>

NextRound == RoundValue

SpecRound == InitRound /\ [][NextRound]_vars

\* ------------------------------------------- PrintPreparationCard ----
\* The repair control the card renders (print-preparation-card.tsx lines
\* 230-246 and 350-389): nothing while stats is null (the loading card) or
\* when stats.isWatertight, else the progress bar, the disabled "Mesh
\* Repaired" marker, or the "Repair Mesh" button.
RepairControl_Always(st, status) ==
  IF st = NoStats THEN "none"
  ELSE IF status = "processing" THEN "progress"
  ELSE IF status = "completed" THEN "completed"
  ELSE "button"

RepairControl(st, status) ==
  IF st = NoStats THEN "none"
  ELSE IF st.isWatertight THEN "none"
  ELSE IF status = "processing" THEN "progress"
  ELSE IF status = "completed" THEN "completed"
  ELSE "button"

\* data.status of the poll response
TaskStatuses == {"IN_PROGRESS", "SUCCEEDED", "FAILED", "CANCELED", "EXPIRED"}

InitCard ==
  /\ CardMounted
  /\ ProgramAt("idle")
  /\ RoundIdle
  /\ ViewerIdle
  /\ RoutesIdle
  /\ HookIdle

\* the parent passes the statistics the viewer reported
\* (onStatsChange={setModelStats}, stats={modelStats})
ReceiveStats ==
  /\ \E w \in BOOLEAN : stats' = [loaded |-> TRUE, isWatertight |-> w]
  /\ UNCHANGED <<remeshStatus, remeshProgress, remeshTaskId, posting, inFlight, completeCalls>>
  /\ UNCHANGED <<programVars, roundVars, viewerVars, routeVars, hookVars>>

\* a click on the rendered, enabled "Repair Mesh" button: handleRemesh up to
\* its await (setRemeshStatus("starting"); fetch POST /api/generate/remesh)
HandleRemesh ==
  /\ RepairControl(stats, remeshStatus) = "button"
  /\ remeshStatus # "starting"
  /\ posting < MaxInFlight
  /\ remeshStatus' = "starting"
  /\ posting' = posting + 1
  /\ UNCHANGED <<stats, remeshProgress, remeshTaskId, inFlight, completeCalls>>
  /\ UNCHANGED <<programVars, roundVars, viewerVars, routeVars, hookVars>>

\* handleRemesh after an ok response: setRemeshTaskId(newTaskId);
\* setRemeshStatus("processing"); setRemeshProgress(0)
RemeshStarted ==
  /\ posting > 0
  /\ remeshTaskId < MaxTasks
  /\ remeshTaskId' = remeshTaskId + 1
  /\ remeshStatus' = "processing"
  /\ remeshProgress' = 0
  /\ posting' = posting - 1
  /\ UNCHANGED <<stats, inFlight, completeCalls>>
  /\ UNCHANGED <<programVars, roundVars, viewerVars, routeVars, hookVars>>

\* handleRemesh's catch: setRemeshStatus("failed")
RemeshRejected ==
  /\ posting > 0
  /\ remeshStatus' = "failed"
  /\ posting' = posting - 1
  /\ UNCHANGED <<stats, remeshProgress, remeshTaskId, inFlight, completeCalls>>
  /\ UNCHANGED <<programVars, roundVars, viewerVars, routeVars, hookVars>>

\* the interval of the polling effect fires: the effect is installed while
\* remeshTaskId is set and remeshStatus is "processing" (line 102)
PollTick ==
  /\ remeshTaskId # 0
  /\ remeshStatus = "processing"
  /\ inFlight[remeshTaskId] < MaxInFlight
  /\ inFlight' = [inFlight EXCEPT ![remeshTaskId] = @ + 1]
  /\ UNCHANGED <<stats, remeshStatus, remeshProgress, remeshTaskId, posting, completeCalls>>
  /\ UNCHANGED <<programVars, roundVars, viewerVars, routeVars, hookVars>>

\* a poll of task t is answered: setRemeshProgress(data.progress || 0) and
\* the branches of lines 121-134
PollAnswered ==
  /\ \E t \in 1..MaxTasks, status \in TaskStatuses, progress \in Progresses :
       /\ inFlight[t] > 0
       /\ inFlight' = [inFlight EXCEPT ![t] = @ - 1]
       /\ remeshProgress' = progress
       /\ remeshStatus' = IF status = "SUCCEEDED" THEN "completed"
                          ELSE IF status \in {"FAILED", "CANCELED", "EXPIRED"} THEN "failed"
                          ELSE remeshStatus
       /\ completeCalls' = IF status = "SUCCEEDED"
                           THEN [completeCalls EXCEPT ![t] = @ + 1]
                           ELSE completeCalls
  /\ UNCHANGED <<stats, remeshTaskId, posting>>
  /\ UNCHANGED <<programVars, roundVars, viewerVars, routeVars, hookVars>>

\* a poll of task t fails (response not ok, or fetch throws): the catch of
\* lines 135-138 changes nothing
PollError ==
  /\ \E t \in 1..MaxTasks :
       /\ inFlight[t] > 0
       /\ inFlight' = [inFlight EXCEPT ![t] = @ - 1]
  /\ UNCHANGED <<stats, remeshStatus, remeshProgress, remeshTaskId, posting, completeCalls>>
  /\ UNCHANGED <<programVars, roundVars, viewerVars, routeVars, hookVars>>

NextCard ==
  \/ ReceiveStats
  \/ HandleRemesh
  \/ RemeshStarted
  \/ RemeshRejected
  \/ PollTick
  \/ PollAnswered
  \/ PollError

SpecCard == InitCard /\ [][NextCard]_vars

\* The card under the scheduling the browser gives it: while the interval is
\* set it fires again (setInterval, 3000 ms), every POST and every poll
\* request is eventually answered or fails. Nothing obliges the user to
\* click or the parent to pass new statistics.
SpecCardFair ==
  /\ SpecCard
  /\ WF_vars(PollTick)
  /\ WF_vars(PollAnswered \/ PollError)
  /\ WF_vars(RemeshStarted \/ RemeshRejected)

\* ---------------------------------------------------- ModelViewer ----
\* The loading effect of ModelViewer (model-viewer.tsx lines 511-591). Each
\* run of the effect has its own `mounted` binding and its own call of
\* fetchAndLoadModel, which stops at three awaits: the fetch, the
\* arrayBuffer and the parse. The statistics of the model behind a URL are
\* named by the URL.
MaxUrls == 2
MaxRuns == 3
Urls == 1..MaxUrls

\* the effect body for modelUrl u: `let mounted = true` and fetchAndLoadModel
\* up to `await fetch(proxyUrl)`
StartRun(u) == [modelUrl |-> u, mounted |-> TRUE, at |-> "fetch"]

\* the effect's cleanup, `mounted = false`, for every run not yet cleaned up
Cleanup(runs) == [i \in 1..Len(runs) |-> [runs[i] EXCEPT !.mounted = FALSE]]

\* a state setter called by a run: React drops it once the component is gone
SetState(v, field, value) == IF v.alive THEN [v EXCEPT ![field] = value] ELSE v

\* first render with a modelUrl: useState(null) three times, useState(0),
\* then the effect runs up to its first await (setLoadProgress(10),
\* setError(null), setLoadProgress(20))
InitViewer ==
  /\ \E u \in Urls :
       /\ viewer = [rendered |-> TRUE, alive |-> TRUE, modelUrl |-> u, scene |-> 0,
                    stats |-> 0, error |-> FALSE, loadProgress |-> 20]
       /\ effects = << StartRun(u) >>
  /\ modelStats = 0
  /\ ProgramAt("idle")
  /\ RoundIdle
  /\ CardMounted
  /\ RoutesIdle
  /\ HookIdle

\* the parent renders the viewer with another modelUrl: the dependency
\* changed, so the cleanup of the last run is called and the effect runs again
ChangeModelUrl ==
  /\ viewer.alive
  /\ Len(effects) < MaxRuns
  /\ \E u \in Urls \ {viewer.modelUrl} :
       /\ viewer' = [viewer EXCEPT !.modelUrl = u, !.error = FALSE, !.loadProgress = 20]
       /\ effects' = Append(Cleanup(effects), StartRun(u))
  /\ UNCHANGED <<modelStats, programVars, roundVars, cardVars, routeVars, hookVars>>

\* the component unmounts: the cleanup of the last run is called
Unmount ==
  /\ viewer.alive
  /\ viewer' = [viewer EXCEPT !.alive = FALSE]
  /\ effects' = Cleanup(effects)
  /\ UNCHANGED <<modelStats, programVars, roundVars, cardVars, routeVars, hookVars>>

\* the catch of lines 578-583 in run i
Caught(i) ==
  /\ viewer' = IF effects[i].mounted THEN SetState(viewer, "error", TRUE) ELSE viewer
  /\ effects' = [effects EXCEPT ![i].at = "failed"]
  /\ UNCHANGED modelStats

\* the fetch of run i is answered with response.ok: setLoadProgress(40)
FetchOk ==
  /\ \E i \in 1..Len(effects) :
       /\ effects[i].at = "fetch"
       /\ viewer' = SetState(viewer, "loadProgress", 40)
       /\ effects' = [effects EXCEPT ![i].at = "read"]
  /\ UNCHANGED <<modelStats, programVars, roundVars, cardVars, routeVars, hookVars>>

\* the fetch of run i rejects or is answered without response.ok
FetchFailed ==
  /\ \E i \in 1..Len(effects) : effects[i].at = "fetch" /\ Caught(i)
  /\ UNCHANGED <<programVars, roundVars, cardVars, routeVars, hookVars>>

\* the body of run i's response has arrived with fileSize > 0:
\* setLoadProgress(60) and the parse is started
ReadOk ==
  /\ \E i \in 1..Len(effects) :
       /\ effects[i].at = "read"
       /\ viewer' = SetState(viewer, "loadProgress", 60)
       /\ effects' = [effects EXCEPT ![i].at = "parse"]
  /\ UNCHANGED <<modelStats, programVars, roundVars, cardVars, routeVars, hookVars>>

\* the body is empty (line 549) or reading it rejects
ReadFailed ==
  /\ \E i \in 1..Len(effects) : effects[i].at = "read" /\ Caught(i)
  /\ UNCHANGED <<programVars, roundVars, cardVars, routeVars, hookVars>>

\* the parse of run i resolves: lines 565-577
Parsed ==
  /\ \E i \in 1..Len(effects) :
       /\ effects[i].at = "parse"
       /\ effects' = [effects EXCEPT ![i].at = "done"]
       /\ IF effects[i].mounted
          THEN /\ viewer' = SetState(SetState(SetState(viewer, "loadProgress", 100),
                                               "scene", effects[i].modelUrl),
                                      "stats", effects[i].modelUrl)
               /\ modelStats' = effects[i].modelUrl
          ELSE /\ viewer' = SetState(viewer, "loadProgress", 100)
               /\ UNCHANGED modelStats
  /\ UNCHANGED <<programVars, roundVars, cardVars, routeVars, hookVars>>

\* the parse of run i rejects, or calculateModelStats throws
ParseFailed ==
  /\ \E i \in 1..Len(effects) : effects[i].at = "parse" /\ Caught(i)
  /\ UNCHANGED <<programVars, roundVars, cardVars, routeVars, hookVars>>

NextViewer ==
  \/ ChangeModelUrl
  \/ Unmount
  \/ FetchOk
  \/ FetchFailed
  \/ ReadOk
  \/ ReadFailed
  \/ Parsed
  \/ ParseFailed

SpecViewer == InitViewer /\ [][NextViewer]_vars

\* ---------------------------------------------- generation routes ----
\* POST /api/generate/remesh (remesh/route.ts lines 6-87) and POST
\* /api/generate/multi-image (part_000 lines 6-90) for one user. A handler
\* stops at each await; between two awaits of one request the steps of the
\* others may happen.
MaxRequests == 2
Balances == {0, 7, 14, 25}

\* creditsNeeded: 7 for a remesh, 25 or 7 for multi-image by ai_model
Posts ==
  { [route |-> "remesh", creditsNeeded |-> 7],
    [route |-> "multi-image", creditsNeeded |-> 25],
    [route |-> "multi-image", creditsNeeded |-> 7] }

InitRoutes ==
  /\ requests = <<>>
  /\ db \in [credits : Balances, generations : {0}, transactions : {0}]
  /\ meshyTasks = 0
  /\ ProgramAt("idle")
  /\ RoundIdle
  /\ CardMounted
  /\ ViewerIdle
  /\ HookIdle

\* the response of request i
Respond(i, code) == requests' = [requests EXCEPT ![i].at = "responded", ![i].status = code]

\* a request arrives: the handler runs up to `await auth()`
Post ==
  /\ Len(requests) < MaxRequests
  /\ \E p \in Posts :
       requests' = Append(requests, [route |-> p.route, creditsNeeded |-> p.creditsNeeded,
                                     at |-> "auth", credits |-> 0, status |-> 0])
  /\ UNCHANGED <<db, meshyTasks, programVars, roundVars, cardVars, viewerVars, hookVars>>

\* auth() resolves: 401 without a userId, else db.user.findUnique is awaited
Authenticated ==
  /\ \E i \in 1..Len(requests), signedIn \in BOOLEAN :
       /\ requests[i].at = "auth"
       /\ IF signedIn THEN requests' = [requests EXCEPT ![i].at = "findUnique"]
          ELSE Respond(i, 401)
  /\ UNCHANGED <<db, meshyTasks, programVars, roundVars, cardVars, viewerVars, hookVars>>

\* findUnique resolves: 404 without a row, else `user` holds the row as it
\* is now and req.json() is awaited
UserFound ==
  /\ \E i \in 1..Len(requests), found \in BOOLEAN :
       /\ requests[i].at = "findUnique"
       /\ IF found
          THEN requests' = [requests EXCEPT ![i].at = "json", ![i].credits = db.credits]
          ELSE Respond(i, 404)
  /\ UNCHANGED <<db, meshyTasks, programVars, roundVars, cardVars, viewerVars, hookVars>>

\* req.json() resolves: 400 for a body without input_task_id (without 2-4
\* images), 402 if user.credits < creditsNeeded, else the upstream call is
\* awaited
BodyRead ==
  /\ \E i \in 1..Len(requests), valid \in BOOLEAN :
       /\ requests[i].at = "json"
       /\ IF ~valid THEN Respond(i, 400)
          ELSE IF requests[i].credits < requests[i].creditsNeeded THEN Respond(i, 402)
          ELSE requests' = [requests EXCEPT ![i].at = "createTask"]
  /\ UNCHANGED <<db, meshyTasks, programVars, roundVars, cardVars, viewerVars, hookVars>>

\* meshy.createRemesh / createMultiImageTo3D resolves with the task id;
\* db.generation.create is awaited
TaskCreated ==
  /\ \E i \in 1..Len(requests) :
       /\ requests[i].at = "createTask"
       /\ requests' = [requests EXCEPT ![i].at = "generation.create"]
  /\ meshyTasks' = meshyTasks + 1
  /\ UNCHANGED <<db, programVars, roundVars, cardVars, viewerVars, hookVars>>

\* db.generation.create resolves; db.user.update is awaited
GenerationCreated ==
  /\ \E i \in 1..Len(requests) :
       /\ requests[i].at = "generation.create"
       /\ requests' = [requests EXCEPT ![i].at = "user.update"]
  /\ db' = [db EXCEPT !.generations = @ + 1]
  /\ UNCHANGED <<meshyTasks, programVars, roundVars, cardVars, viewerVars, hookVars>>

\* db.user.update({ credits: { decrement: creditsNeeded } }) resolves;
\* db.transaction.create is awaited
CreditsDecremented ==
  /\ \E i \in 1..Len(requests) :
       /\ requests[i].at = "user.update"
       /\ requests' = [requests EXCEPT ![i].at = "transaction.create"]
       /\ db' = [db EXCEPT !.credits = @ - requests[i].creditsNeeded]
  /\ UNCHANGED <<meshyTasks, programVars, roundVars, cardVars, viewerVars, hookVars>>

\* db.transaction.create resolves: { taskId } is returned
TransactionCreated ==
  /\ \E i \in 1..Len(requests) :
       /\ requests[i].at = "transaction.create"
       /\ Respond(i, 200)
  /\ db' = [db EXCEPT !.transactions = @ + 1]
  /\ UNCHANGED <<meshyTasks, programVars, roundVars, cardVars, viewerVars, hookVars>>

\* the awaited upstream or database call rejects: the catch returns 500
Thrown ==
  /\ \E i \in 1..Len(requests) :
       /\ requests[i].at \in {"createTask", "generation.create", "user.update",
                               "transaction.create"}
       /\ Respond(i, 500)
  /\ UNCHANGED <<db, meshyTasks, programVars, roundVars, cardVars, viewerVars, hookVars>>

NextRoutes ==
  \/ Post
  \/ Authenticated
  \/ UserFound
  \/ BodyRead
  \/ TaskCreated
  \/ GenerationCreated
  \/ CreditsDecremented
  \/ TransactionCreated
  \/ Thrown

SpecRoutes == InitRoutes /\ [][NextRoutes]_vars

\* -------------------------------------------------- Stripe webhook ----
\* POST of the webhook route (part_006 lines 7-102) for the deliveries of one
\* checkout.session.completed event: Stripe delivers an event at least once,
\* and again after a response that is not 2xx.
MaxDeliveries == 2

\* parseInt(session.metadata?.credits || "0", 10): 0 without metadata, else
\* the credits of the package bought (part_010 lines 28-67)
SessionCredits == {0, 50, 150}

InitHook ==
  /\ session \in [credits : SessionCredits]
  /\ deliveries = <<>>
  /\ account = [credits |-> 0, purchases |-> 0, packages |-> 0]
  /\ ProgramAt("idle")
  /\ RoundIdle
  /\ CardMounted
  /\ ViewerIdle
  /\ RoutesIdle

\* the response to delivery i
Answer(i, code) == deliveries' = [deliveries EXCEPT ![i].at = "responded", ![i].status = code]

\* Stripe sends the event (again): the handler runs up to its first await
Deliver ==
  /\ Len(deliveries) < MaxDeliveries
  /\ deliveries' = Append(deliveries, [at |-> "verify", status |-> 0])
  /\ UNCHANGED <<session, account, programVars, roundVars, cardVars, viewerVars, routeVars>>

\* lines 8-47: 400 without a valid signature; without userId or credits in
\* the metadata the case breaks and { received: true } is returned; else
\* db.user.update is awaited
Verified ==
  /\ \E i \in 1..Len(deliveries), signed \in BOOLEAN :
       /\ deliveries[i].at = "verify"
       /\ IF ~signed THEN Answer(i, 400)
          ELSE IF session.credits = 0 THEN Answer(i, 200)
          ELSE deliveries' = [deliveries EXCEPT ![i].at = "user.update"]
  /\ UNCHANGED <<session, account, programVars, roundVars, cardVars, viewerVars, routeVars>>

\* db.user.update({ credits: { increment: credits } }) resolves;
\* db.transaction.create is awaited
CreditsIncremented ==
  /\ \E i \in 1..Len(deliveries) :
       /\ deliveries[i].at = "user.update"
       /\ deliveries' = [deliveries EXCEPT ![i].at = "transaction.create"]
  /\ account' = [account EXCEPT !.credits = @ + session.credits]
  /\ UNCHANGED <<session, programVars, roundVars, cardVars, viewerVars, routeVars>>

\* db.transaction.create (type PURCHASE) resolves; db.creditPackage.create
\* is awaited
PurchaseRecorded ==
  /\ \E i \in 1..Len(deliveries) :
       /\ deliveries[i].at = "transaction.create"
       /\ deliveries' = [deliveries EXCEPT ![i].at = "creditPackage.create"]
  /\ account' = [account EXCEPT !.purchases = @ + 1]
  /\ UNCHANGED <<session, programVars, roundVars, cardVars, viewerVars, routeVars>>

\* db.creditPackage.create resolves: { received: true }
PackageRecorded ==
  /\ \E i \in 1..Len(deliveries) :
       /\ deliveries[i].at = "creditPackage.create"
       /\ Answer(i, 200)
  /\ account' = [account EXCEPT !.packages = @ + 1]
  /\ UNCHANGED <<session, programVars, roundVars, cardVars, viewerVars, routeVars>>

\* the awaited database call rejects: the catch of lines 81-87 returns 500
\* and undoes nothing
HookThrown ==
  /\ \E i \in 1..Len(deliveries) :
       /\ deliveries[i].at \in {"user.update", "transaction.create", "creditPackage.create"}
       /\ Answer(i, 500)
  /\ UNCHANGED <<session, account, programVars, roundVars, cardVars, viewerVars, routeVars>>

NextHook ==
  \/ Deliver
  \/ Verified
  \/ CreditsIncremented
  \/ PurchaseRecorded
  \/ PackageRecorded
  \/ HookThrown

SpecHook == InitHook /\ [][NextHook]_vars

\* ---------------------------------------- vocabulary of the claims ----
\* the submeshes of a scene: the positions of its Mesh nodes
MeshNodes(sc) == { n \in 1..Len(sc) : sc[n].isMesh }
IndexedNodes(sc) == { n \in MeshNodes(sc) : sc[n].hasIndex }
SoupNodes(sc) == { n \in MeshNodes(sc) : ~sc[n].hasIndex }

\* the buffer whose entries are the submesh's triangle references
References(m) == IF m.hasIndex THEN m.index ELSE m.position

\* every index buffer, and every vertex buffer used as a triangle soup, holds
\* whole triangles only (the Index Buffer / Vertex Buffer of the data model)
WholeTriangles(sc) == \A n \in MeshNodes(sc) : Len(References(sc[n])) % 3 = 0

\* every index refers to a vertex of its submesh
IndicesInRange(sc) ==
  \A n \in IndexedNodes(sc) :
    \A j \in 1..Len(sc[n].index) : sc[n].index[j] < Len(sc[n].position)

\* a Scene of the data model
WellFormed(sc) == WholeTriangles(sc) /\ IndicesInRange(sc)

RECURSIVE Sum(_)
\* the sum of a sequence of numbers
Sum(q) == IF q = <<>> THEN 0 ELSE Head(q) + Sum(Tail(q))

\* per node of the scene: vertex-buffer length, number of triangle references,
\* number of whole triangles (0 for a node that is no submesh)
VertexLengths(sc) ==
  [n \in 1..Len(sc) |-> IF sc[n].isMesh THEN Len(sc[n].position) ELSE 0]
ReferenceLengths(sc) ==
  [n \in 1..Len(sc) |-> IF sc[n].isMesh THEN Len(References(sc[n])) ELSE 0]
TriangleCounts(sc) ==
  [n \in 1..Len(sc) |-> IF sc[n].isMesh THEN Len(References(sc[n])) \div 3 ELSE 0]

\* the whole triangles of an index buffer, and the undirected edges of one
TrianglesOf(idx) == 1..(Len(idx) \div 3)
EdgesOfTriangle(idx, t) ==
  { {idx[3 * t - 2], idx[3 * t - 1]}, {idx[3 * t - 1], idx[3 * t]},
    {idx[3 * t], idx[3 * t - 2]} }
EdgesOf(idx) == UNION { EdgesOfTriangle(idx, t) : t \in TrianglesOf(idx) }

\* the triangles that reference the edge e
TrianglesOnEdge(idx, e) == { t \in TrianglesOf(idx) : e \in EdgesOfTriangle(idx, t) }

\* the edge slots (a,b), (b,c), (c,a) of the triangles that are the edge e
SlotsOnEdge(idx, e) ==
  { s \in TrianglesOf(idx) \X (1..3) :
      {idx[3 * s[1] - 3 + s[2]], idx[3 * s[1] - 3 + (s[2] % 3) + 1]} = e }

C2_SoupNotWatertight ==
  (Returned /\ MeshNodes(scene) # {} /\ IndexedNodes(scene) = {}) =>
    result.isWatertight = FALSE

\* ------------------------------------------------------------- C3 ----
\* C3: a scene with zero submeshes yields zero counts, zero volume, zero
\* surface area and isWatertight false.
C3_EmptySceneStats ==
  (Returned /\ MeshNodes(scene) = {}) =>
    /\ result.triangles = 0
    /\ result.vertices = 0
    /\ result.meshCount = 0
    /\ result.volume = Fin(0)
    /\ result.surfaceArea = Fin(0)
    /\ result.isWatertight = FALSE

\* ------------------------------------------------------------- C4 ----
\* the scene with the uniform scale s applied to its root transform
Scaled(sc, s) ==
  [n \in 1..Len(sc) |->
     [sc[n] EXCEPT !.matrixWorld =
        [m |-> [r \in 1..3 |-> [c \in 1..3 |-> s * sc[n].matrixWorld.m[r][c]]],
         t |-> [c \in 1..3 |-> s * sc[n].matrixWorld.t[c]]]]]

\* C4: scaling the scene's transform by s leaves triangles, vertices and
\* isWatertight unchanged and multiplies the dimensions by s, the surface area
\* by s^2 (up to the rounding of the square roots) and the volume by s^3,
\* all before presentation rounding.
C4_ScalingInvariance ==
  (Returned /\ WellFormed(scene)) =>
    \A s \in 1..MaxScale :
      LET scaled == Traverse(InitialLocals, Scaled(scene, s))
          scaledSize == GetSize(SetFromObject(Scaled(scene, s)))
      IN /\ scaled.triangles = triangles
         /\ scaled.vertices = vertices
         /\ scaled.isWatertight = isWatertight
         /\ scaledSize = [a \in 1..3 |-> s * size[a]]
         /\ scaled.totalVolume.v = s * s * s * totalVolume.v
         /\ Abs(scaled.totalSurfaceArea.v - s * s * totalSurfaceArea.v)
              <= s * s * Sum(TriangleCounts(scene))

\* ------------------------------------------------------------- C5 ----
\* C5: meshCount is the number of submeshes, vertexCount the sum of their
\* vertex-buffer lengths, and triangleCount the sum over submeshes of
\* indexBuffer.length / 3 when indexed and vertexBuffer.length / 3 otherwise,
\* for every Scene of the data model (buffers of whole triangles).
C5_Counts ==
  (Returned /\ WholeTriangles(scene)) =>
    /\ result.meshCount = Cardinality(MeshNodes(scene))
    /\ result.vertices = Sum(VertexLengths(scene))
    /\ result.triangles = Sum(TriangleCounts(scene))

\* a result for a scene holding an indexed submesh, whose index buffer is
\* longer than its vertex buffer, and an un-indexed submesh
C5_Witness ==
  /\ Returned
  /\ WholeTriangles(scene)
  /\ \E n \in IndexedNodes(scene) : Len(scene[n].index) > Len(scene[n].position)
  /\ \E n \in SoupNodes(scene) : Len(scene[n].position) > 0
  /\ result.triangles = 3

\* ------------------------------------------------------------- C6 ----
\* C6: triangleCount * 3 is exactly the number of triangle references of the
\* Scene: index-buffer lengths of indexed submeshes plus vertex-buffer
\* lengths of un-indexed ones.
C6_TriangleReferences ==
  (Returned /\ WholeTriangles(scene)) =>
    result.triangles * 3 = Sum(ReferenceLengths(scene))

\* a result that counts an indexed submesh (by its index buffer, not its
\* vertices) together with an un-indexed one
C6_Witness ==
  /\ Returned
  /\ WholeTriangles(scene)
  /\ \E n \in IndexedNodes(scene) : Len(scene[n].index) = 3
  /\ \E n \in SoupNodes(scene) : Len(scene[n].position) = 3
  /\ result.triangles * 3 = 6

C8_NonNegative ==
  (Returned /\ WellFormed(scene)) =>
    /\ IsFin(result.volume) /\ result.volume.v >= 0
    /\ IsFin(result.surfaceArea) /\ result.surfaceArea.v >= 0

\* a result with positive volume for a scene one of whose submeshes is a
\* single triangle with a negative signed contribution
C8_Witness ==
  /\ Returned
  /\ WellFormed(scene)
  /\ result.volume.v > 0
  /\ \E n \in IndexedNodes(scene) :
       LET p == scene[n].position
           ix == scene[n].index
       IN /\ Len(ix) = 3
          /\ Dot(p[ix[1] + 1], Cross(p[ix[2] + 1], p[ix[3] + 1])) < 0

\* ------------------------------------------------------------- C9 ----
\* the vertices of all submeshes after their local-to-world transforms
WorldVertices(sc) ==
  UNION { { ApplyMatrix4(sc[n].position[j], sc[n].matrixWorld) :
              j \in 1..Len(sc[n].position) } : n \in MeshNodes(sc) }

\* the extent along axis a of the bounding box of a set of points
Extent(points, a) ==
  IF points = {} THEN 0
  ELSE LET hi == CHOOSE p \in points : \A q \in points : q[a] <= p[a]
           lo == CHOOSE p \in points : \A q \in points : p[a] <= q[a]
       IN hi[a] - lo[a]

\* C9: the dimensions (in hundredths) are the extents of the axis-aligned
\* bounding box of all vertices after each submesh's world transform.
C9_WorldVertexExtents ==
  Returned =>
    result.dimensions = [a \in 1..3 |-> 100 * Extent(WorldVertices(scene), a)]

\* ------------------------------------------------------------ C10 ----
\* C10: for a scene with zero vertices the returned boundingBox is the
\* zero-size box at the origin and the dimensions are {0, 0, 0}.
C10_ZeroBoxAtOrigin ==
  (Returned /\ Sum(VertexLengths(scene)) = 0) =>
    /\ result.boundingBox.min = <<Fin(0), Fin(0), Fin(0)>>
    /\ result.boundingBox.max = <<Fin(0), Fin(0), Fin(0)>>
    /\ result.dimensions = <<0, 0, 0>>

\* ------------------------------------------------------------ C11 ----
\* C11: for a unit cube given as one indexed submesh of 8 shared vertices and
\* 12 outward-wound triangles, the result has volume 1.0, surfaceArea 6.0,
\* isWatertight true and dimensions 1 x 1 x 1.
C11_UnitCube ==
  (Returned /\ scene \in CubeScenes) =>
    /\ result.volume = Fin(1000)
    /\ result.surfaceArea = Fin(600)
    /\ result.isWatertight
    /\ result.dimensions = <<100, 100, 100>>

\* ------------------------------------------------------------ C12 ----
\* an edge of the submesh whose incidence count (its number of occurrences
\* among the edge slots of the submesh's triangles) is not 2
HasBadEdge(m) ==
  \E e \in EdgesOf(m.index) : Cardinality(SlotsOnEdge(m.index, e)) # 2

\* every edge of the submesh has incidence count 2, and there is one
LocallyWatertight(m) ==
  /\ Len(m.index) % 3 = 0
  /\ EdgesOf(m.index) # {}
  /\ ~HasBadEdge(m)

\* C12: once the traversal has visited an indexed submesh with an edge whose
\* incidence count is not 2, isWatertight is false and stays false whatever
\* submeshes come before or after it; the returned verdict is then false,
\* and the triangle and vertex counts still are the sums over all submeshes.
C12_OneBadSubmeshDecides ==
  /\ \A n \in IndexedNodes(scene) :
       (n < next /\ HasBadEdge(scene[n])) => ~isWatertight
  /\ (Returned /\ WholeTriangles(scene)
        /\ \E n \in IndexedNodes(scene) : HasBadEdge(scene[n])) =>
       /\ ~result.isWatertight
       /\ result.triangles = Sum(TriangleCounts(scene))
       /\ result.vertices = Sum(VertexLengths(scene))

\* a returned verdict false for a scene whose first submesh has a boundary
\* edge and whose later submesh is locally watertight
C12_Witness ==
  /\ Returned
  /\ ~result.isWatertight
  /\ \E n, m \in IndexedNodes(scene) :
       /\ n < m
       /\ HasBadEdge(scene[n])
       /\ LocallyWatertight(scene[m])
  /\ result.triangles = Sum(TriangleCounts(scene))

\* ------------------------------------------------------------ C13 ----
\* C13: a second call on the same scene with the same fileSize returns a
\* record equal to the first call's in every field.
C13_Idempotence ==
  (Returned /\ previous # NoResult /\ fileSize = previousFileSize) =>
    result = previous

\* a second call with the same fileSize has returned, for a scene with two
\* submeshes one of which has volume
C13_Witness ==
  /\ Returned
  /\ previous # NoResult
  /\ fileSize = previousFileSize
  /\ Cardinality(MeshNodes(scene)) >= 2
  /\ IsFin(result.volume) /\ result.volume.v > 0
  /\ result = previous

\* ------------------------------------------------------------ C14 ----
\* C14: no step of calculateModelStats changes a vertex buffer or an index
\* buffer: after every step each node's buffers have the length and the
\* elements they had before it.
C14_BuffersUnchanged ==
  [][/\ Len(scene') = Len(scene)
     /\ \A n \in 1..Len(scene) :
          /\ scene'[n].position = scene[n].position
          /\ scene'[n].index = scene[n].index]_vars

\* the call has returned for a scene with an indexed submesh whose triangles
\* were read from its buffers
C14_Witness ==
  /\ Returned
  /\ \E n \in IndexedNodes(scene) :
       /\ Len(scene[n].index) >= 3
       /\ Len(scene[n].position) >= 3
  /\ IsFin(result.surfaceArea) /\ result.surfaceArea.v > 0

\* ------------------------------------------------------------ C15 ----
\* r / scale is the multiple of 1 / scale nearest to num / den, the one
\* farther from zero when two are equally near
NearestAwayFromZero(r, num, den, scale) ==
  /\ 2 * Abs(r * den - num * scale) <= den
  /\ (2 * Abs(r * den - num * scale) = den) => Abs(r * den) > Abs(num * scale)

\* C15: the returned dimensions and surfaceArea are the unrounded values
\* rounded to 2 decimal places and the returned volume is the unrounded
\* value rounded to 3 decimal places, exact halves of the last kept digit
\* rounded away from zero.
C15_PresentationRounding ==
  (rounded # NoValue) =>
    /\ NearestAwayFromZero(rounded.value.v, unrounded.num, unrounded.den,
                           Pow10(unrounded.decimals))
    /\ \A a \in 1..3 :
         NearestAwayFromZero(rounded.stats.dimensions[a], unrounded.num, 1, 100)
    /\ NearestAwayFromZero(rounded.stats.surfaceArea.v, unrounded.num, 2 * SqrtScale, 100)
    /\ NearestAwayFromZero(rounded.stats.volume.v, unrounded.num, 6, 1000)

\* a positive value that is an exact half of the third decimal has been
\* rounded
C15_Witness ==
  /\ rounded # NoValue
  /\ unrounded.decimals = 3
  /\ unrounded.num > 0
  /\ 2 * Abs(rounded.value.v * unrounded.den - unrounded.num * 1000) = unrounded.den

\* ------------------------------------------------------------ C16 ----
\* the triangle t = <<a, b, c>> has two or three equal vertex positions
Coincident(pos, t) ==
  Cardinality({ pos[t[1] + 1], pos[t[2] + 1], pos[t[3] + 1] }) < 3

RECURSIVE NonDegenerateIndex(_, _)
\* the index buffer without its triangles that have coincident vertices
NonDegenerateIndex(pos, idx) ==
  IF Len(idx) < 3 THEN <<>>
  ELSE LET t == SubSeq(idx, 1, 3)
           rest == NonDegenerateIndex(pos, SubSeq(idx, 4, Len(idx)))
       IN IF Coincident(pos, t) THEN rest ELSE t \o rest

WithoutDegenerate(sc) ==
  [n \in 1..Len(sc) |->
     IF sc[n].isMesh /\ sc[n].hasIndex
     THEN [sc[n] EXCEPT !.index = NonDegenerateIndex(sc[n].position, sc[n].index)]
     ELSE sc[n]]

\* C16: for a scene of the data model, the returned volume, surfaceArea and
\* dimensions are finite, and the triangles with coincident vertices
\* contribute exactly zero: volume and area are what they are without them.
C16_DegenerateTriangles ==
  (Returned /\ WellFormed(scene)) =>
    /\ IsFin(result.volume)
    /\ IsFin(result.surfaceArea)
    /\ \A a \in 1..3 : result.dimensions[a] \in Int
    /\ LET kept == Traverse(InitialLocals, WithoutDegenerate(scene))
       IN /\ totalVolume = kept.totalVolume
          /\ totalSurfaceArea = kept.totalSurfaceArea

\* ------------------------------------------------------------ C17 ----
\* a submesh whose index buffer does not hold whole triangles only
Malformed(m) == m.isMesh /\ m.hasIndex /\ Len(m.index) % 3 # 0
NotMalformed(m) == ~Malformed(m)

\* the scene without its malformed submeshes
WithoutMalformed(sc) == SelectSeq(sc, NotMalformed)

\* C17: when a scene holds malformed submeshes (index-buffer length not a
\* multiple of 3) beside submeshes of the data model, a result is returned
\* in which volume and surfaceArea are finite and not less than those of the
\* scene without the malformed submeshes, and meshCount and vertices exceed
\* that scene's by the malformed submeshes and their vertices.
C17_MalformedContained ==
  (Returned /\ WithoutMalformed(scene) # scene /\ WellFormed(WithoutMalformed(scene))) =>
    LET rest == calculateModelStats(WithoutMalformed(scene), fileSize)
        bad == { n \in 1..Len(scene) : Malformed(scene[n]) }
    IN /\ IsFin(result.volume) /\ result.volume.v >= rest.volume.v
       /\ IsFin(result.surfaceArea) /\ result.surfaceArea.v >= rest.surfaceArea.v
       /\ result.meshCount = rest.meshCount + Cardinality(bad)
       /\ result.vertices = rest.vertices + Sum([n \in 1..Len(scene) |->
                               IF n \in bad THEN Len(scene[n].position) ELSE 0])

\* ------------------------------------------------------------ C18 ----
\* C18: after every step of the card, no repair control is rendered when
\* stats.isWatertight is true and one (button, progress bar or completed
\* marker) is rendered when it is false; and handleRemesh starts only from a
\* state whose stats.isWatertight is false.
C18_RepairOfferedIffNotWatertight ==
  [][/\ (stats' # NoStats /\ stats'.isWatertight) =>
          RepairControl(stats', remeshStatus') = "none"
     /\ (stats' # NoStats /\ ~stats'.isWatertight) =>
          RepairControl(stats', remeshStatus') \in {"button", "progress", "completed"}
     /\ (posting' > posting) => (stats # NoStats /\ ~stats.isWatertight)]_vars

\* a repair was started for a model that was not watertight, and the card
\* now has watertight stats: it renders no repair control while the repair
\* is still in progress
C18_Witness ==
  /\ stats # NoStats
  /\ stats.isWatertight
  /\ remeshStatus = "processing"
  /\ RepairControl(stats, remeshStatus) = "none"

\* ------------------------------------------------------------ C19 ----
\* C19: the returned fileSize is the fileSize argument, and the records two
\* calls on the same scene with different fileSize arguments return differ
\* in no field other than fileSize.
C19_FileSizeOpaque ==
  Returned =>
    /\ result.fileSize = fileSize
    /\ (previous # NoResult /\ fileSize # previousFileSize) =>
         /\ previous.fileSize = previousFileSize
         /\ DOMAIN result = DOMAIN previous
         /\ \A f \in DOMAIN result \ {"fileSize"} : result[f] = previous[f]

\* two calls with different fileSize arguments have returned, for a scene
\* with volume; the two records differ in fileSize
C19_Witness ==
  /\ Returned
  /\ previous # NoResult
  /\ fileSize # previousFileSize
  /\ result.fileSize # previous.fileSize
  /\ IsFin(result.volume) /\ result.volume.v > 0

\* ------------------------------------------------------------ C20 ----
\* the sum of v0 . (v1 x v2) over the triangles of an indexed submesh (in
\* sixths), and the sum over the indexed submeshes of its absolute value
MeshSigned(m) ==
  Sum([t \in TrianglesOf(m.index) |->
         Dot(m.position[m.index[3 * t - 2] + 1],
             Cross(m.position[m.index[3 * t - 1] + 1], m.position[m.index[3 * t] + 1]))])

SumOfAbsolutes(sc) ==
  Sum([n \in 1..Len(sc) |->
         IF sc[n].isMesh /\ sc[n].hasIndex THEN Abs(MeshSigned(sc[n])) ELSE 0])

\* the scene with the winding of every triangle of submesh n reversed
ReverseWinding(sc, n) ==
  [sc EXCEPT ![n].index =
     [j \in 1..Len(sc[n].index) |->
        IF j % 3 = 2 THEN sc[n].index[j + 1]
        ELSE IF j % 3 = 0 THEN sc[n].index[j - 1]
        ELSE sc[n].index[j]]]

\* C20: for a scene of the data model, the unrounded total volume is the sum
\* over the indexed submeshes of the absolute value of the submesh's sum of
\* signed contributions v0 . (v1 x v2) / 6, and reversing the winding of
\* every triangle of one submesh leaves it unchanged.
C20_VolumePerSubmeshAbsolute ==
  (Returned /\ WellFormed(scene)) =>
    /\ totalVolume = Fin(SumOfAbsolutes(scene))
    /\ \A n \in IndexedNodes(scene) :
         Traverse(InitialLocals, ReverseWinding(scene, n)).totalVolume = totalVolume

\* two submeshes of opposite winding whose volumes add in the total
C20_Witness ==
  /\ Returned
  /\ WellFormed(scene)
  /\ \E n, m \in IndexedNodes(scene) :
       /\ MeshSigned(scene[n]) > 0
       /\ MeshSigned(scene[m]) < 0
       /\ totalVolume = Fin(MeshSigned(scene[n]) - MeshSigned(scene[m]))

\* ------------------------------------------------------------ C21 ----
\* the scene without its node n
WithoutNode(sc, n) == SubSeq(sc, 1, n - 1) \o SubSeq(sc, n + 1, Len(sc))

\* C21: a submesh without an index buffer adds nothing to the volume and the
\* surface area, a third of its vertex-buffer length to the triangle count,
\* its vertex-buffer length to the vertex count and 1 to the mesh count: the
\* accumulators differ by exactly that from those of the scene without it.
C21_SoupContribution ==
  Returned =>
    \A n \in SoupNodes(scene) :
      LET rest == Traverse(InitialLocals, WithoutNode(scene, n))
      IN /\ totalVolume = rest.totalVolume
         /\ totalSurfaceArea = rest.totalSurfaceArea
         /\ triangles = rest.triangles + Len(scene[n].position)
         /\ vertices = rest.vertices + Len(scene[n].position)
         /\ meshCount = rest.meshCount + 1

\* a result with volume and area for a scene that holds an un-indexed
\* submesh of one triangle beside an indexed one
C21_Witness ==
  /\ Returned
  /\ \E n \in SoupNodes(scene) : Len(scene[n].position) = 3
  /\ IsFin(totalVolume) /\ totalVolume.v > 0
  /\ IsFin(totalSurfaceArea) /\ totalSurfaceArea.v > 0
  /\ result.triangles = 2

\* ------------------------------------------------------------ C22 ----
\* the scenes that visit the nodes of sc in another order
Permutations(sc) ==
  { [i \in 1..Len(sc) |-> sc[f[i]]] :
      f \in { g \in [1..Len(sc) -> 1..Len(sc)] :
                \A i, j \in 1..Len(sc) : g[i] = g[j] => i = j } }

\* C22: the counts, isWatertight, the bounding box and the exactly computed
\* volume and surface area are the same for every order in which the nodes
\* of the scene are visited.
C22_OrderIndependence ==
  Returned =>
    \A p \in Permutations(scene) :
      /\ Traverse(InitialLocals, p) = Locals
      /\ SetFromObject(p) = boundingBox

\* a result for a scene of two different submeshes, one with a boundary
\* edge and one with volume, which has another visiting order
C22_Witness ==
  /\ Returned
  /\ Cardinality(Permutations(scene)) >= 2
  /\ Cardinality(IndexedNodes(scene)) >= 2
  /\ ~isWatertight
  /\ \E n \in IndexedNodes(scene) : LocallyWatertight(scene[n])
  /\ IsFin(totalVolume) /\ totalVolume.v > 0

\* ------------------------------------------------------------ C23 ----
\* the verdict of a scan that looks at every edge count of every indexed
\* submesh and never stops early
FullScanVerdict(sc) ==
  \A n \in IndexedNodes(sc) :
    LET edges == EdgeLoop(sc[n].index, 0, <<>>)
    IN \A e \in 1..Len(edges) : ~BadCount(edges[e].count)

\* C23: isWatertight as computed, the scan of a submesh's edge counts
\* stopping at the first count different from 2, is the verdict of the scan
\* that visits every count of every indexed submesh.
C23_EarlyExit ==
  Returned => (result.isWatertight <=> FullScanVerdict(scene))

\* a verdict false from a scan that stopped at a submesh's first count and
\* so never read a later count of that submesh, which is 2
C23_Witness ==
  /\ Returned
  /\ ~result.isWatertight
  /\ \E n \in IndexedNodes(scene) :
       LET edges == EdgeLoop(scene[n].index, 0, <<>>)
       IN /\ Len(edges) >= 2
          /\ BadCount(edges[1].count)
          /\ ~BadCount(edges[Len(edges)].count)

\* ------------------------------------------------------------ C24 ----
\* the indices in the whole triangles of an index buffer
IndicesUsed(idx) == { idx[j] : j \in 1..(3 * (Len(idx) \div 3)) }

\* the scene with the vertex order of triangle t of submesh n reversed
ReverseTriangle(sc, n, t) ==
  [sc EXCEPT ![n].index =
     [j \in 1..Len(sc[n].index) |->
        IF j = 3 * t - 2 THEN sc[n].index[3 * t]
        ELSE IF j = 3 * t THEN sc[n].index[3 * t - 2]
        ELSE sc[n].index[j]]]

\* C24: within a submesh, two index pairs get the same edge key exactly when
\* they are the same unordered pair, so that the count kept for an edge is
\* the number of its occurrences in either direction; and reversing the
\* vertex order of any triangle leaves isWatertight unchanged.
C24_EdgeKeys ==
  Returned =>
    \A n \in IndexedNodes(scene) :
      LET idx == scene[n].index
      IN /\ \A a, b, c, d \in IndicesUsed(idx) :
              (EdgeKey(<<a>>, <<b>>) = EdgeKey(<<c>>, <<d>>)) <=> ({a, b} = {c, d})
         /\ (Len(idx) % 3 = 0) =>
              \A a, b \in IndicesUsed(idx) :
                ({a, b} \in EdgesOf(idx)) =>
                  MapGet(EdgeLoop(idx, 0, <<>>), EdgeKey(<<a>>, <<b>>))
                    = Cardinality(SlotsOnEdge(idx, {a, b}))
         /\ \A t \in TrianglesOf(idx) :
              Traverse(InitialLocals, ReverseTriangle(scene, n, t)).isWatertight
                = isWatertight

\* a result for a submesh with two different edges (a, b) and (c, d) for
\* which 10 * a + b = 10 * c + d
C24_Witness ==
  /\ Returned
  /\ \E n \in IndexedNodes(scene) :
       \E a, b, c, d \in IndicesUsed(scene[n].index) :
         /\ a <= b /\ c <= d /\ a # c
         /\ {a, b} \in EdgesOf(scene[n].index)
         /\ {c, d} \in EdgesOf(scene[n].index)
         /\ 10 * a + b = 10 * c + d

\* ------------------------------------------------------------- C25 ----
\* ways to move the vertices of a buffer without changing its length
PositionMaps == {"keep", "collapse", "mirror"}

MovePositions(pos, f) ==
  IF f = "keep" THEN pos
  ELSE IF f = "collapse" THEN [j \in 1..Len(pos) |-> <<0, 0, 0>>]
  ELSE [j \in 1..Len(pos) |-> << 0 - pos[j][1], pos[j][3], pos[j][2] + 1 >>]

\* the scene with the same index buffers and vertex-buffer lengths, every
\* submesh under the transform mw and with its vertices moved by f
Moved(sc, mw, f) ==
  [n \in 1..Len(sc) |->
     IF sc[n].isMesh
     THEN [sc[n] EXCEPT !.matrixWorld = mw, !.position = MovePositions(sc[n].position, f)]
     ELSE sc[n]]

\* two scenes with the same nodes, index buffers and vertex-buffer lengths
SameIndexBuffers(a, b) ==
  /\ Len(a) = Len(b)
  /\ \A n \in 1..Len(a) :
       /\ a[n].isMesh = b[n].isMesh
       /\ a[n].hasIndex = b[n].hasIndex
       /\ a[n].index = b[n].index
       /\ Len(a[n].position) = Len(b[n].position)

\* the positions of the two ends of the edges of a submesh's triangles
GeometricEdges(m) ==
  { << t, { m.position[m.index[3 * (t - 1) + e[1]] + 1],
            m.position[m.index[3 * (t - 1) + e[2]] + 1] } >> :
      t \in TrianglesOf(m.index), e \in { <<1, 2>>, <<2, 3>>, <<3, 1>> } }

\* every edge of the surface, taken as a pair of positions, lies on exactly
\* two triangles
GeometricallyClosed(m) ==
  /\ Len(m.index) >= 3
  /\ \A g \in GeometricEdges(m) :
       /\ Cardinality(g[2]) = 2
       /\ Cardinality({ h \in GeometricEdges(m) : h[2] = g[2] }) = 2

\* no two corners of the submesh's triangles use the same vertex index
FacesShareNoIndex(m) == \A i, j \in 1..Len(m.index) : m.index[i] = m.index[j] => i = j

\* C25: the watertightness verdict is a function of the index buffers alone.
\* A scene with the same index buffers and vertex-buffer lengths as the one
\* measured, whatever its vertex positions and transforms, gets the same
\* isWatertight; and a geometrically closed submesh whose faces share no
\* vertex index is reported not watertight.
C25_IndexBuffersDecide ==
  Returned =>
    /\ \A mw \in Transforms, f \in PositionMaps :
         /\ SameIndexBuffers(scene, Moved(scene, mw, f))
         /\ Traverse(InitialLocals, Moved(scene, mw, f)).isWatertight = isWatertight
    /\ \A sc \in CubeScenes \cup SolidScenes \cup SplitScenes :
         SameIndexBuffers(scene, sc) =>
           Traverse(InitialLocals, sc).isWatertight = isWatertight
    /\ (WellFormed(scene) /\ \E n \in IndexedNodes(scene) :
           GeometricallyClosed(scene[n]) /\ FacesShareNoIndex(scene[n]))
         => isWatertight = FALSE

\* a result for a closed submesh whose faces share no vertex index, beside
\* the verdict of the same surface with shared indices
C25_Witness ==
  /\ Returned
  /\ WellFormed(scene)
  /\ \E n \in IndexedNodes(scene) :
       /\ GeometricallyClosed(scene[n])
       /\ FacesShareNoIndex(scene[n])
       /\ Traverse(InitialLocals, << Mesh(Quad, TRUE, TetraIndex, Identity) >>).isWatertight
       /\ \E f \in PositionMaps :
            Traverse(InitialLocals, Moved(scene, Identity, f)).totalVolume # totalVolume
  /\ isWatertight = FALSE

\* ------------------------------------------------------------- C26 ----
\* a run whose cleanup has been called (its modelUrl was replaced, or the
\* component unmounted) takes a step that leaves scene, stats and the
\* parent's modelStats as they were
StaleRunsSilent ==
  \A i \in 1..Len(effects) :
    (Len(effects') >= i /\ effects'[i].at # effects[i].at /\ ~effects[i].mounted)
      => /\ viewer'.scene = viewer.scene
         /\ viewer'.stats = viewer.stats
         /\ modelStats' = modelStats

\* the statistics delivered last are those of the current modelUrl
LastStatsCurrent == modelStats # 0 => modelStats = viewer.modelUrl

\* C26: a load started for a modelUrl that has since been replaced, or for a
\* component that has since unmounted, never sets scene or stats and never
\* invokes onStatsChange when it completes, whatever the order in which
\* overlapping loads finish; so the stats delivered last always belong to
\* the most recent modelUrl.
C26_StaleLoadsSilent == [][StaleRunsSilent]_vars /\ []LastStatsCurrent

\* ------------------------------------------------------------- C27 ----
\* onRemeshComplete has been called at most once for each remesh task
CompletedAtMostOnce == \A t \in 1..MaxTasks : completeCalls[t] <= 1

\* the interval that polls task t is set: the effect of lines 101-142 is
\* installed for it and has not been cleaned up
IntervalSet(t) == remeshTaskId = t /\ remeshStatus = "processing"

\* a response to a poll of a task whose interval has been cleared leaves
\* remeshStatus as it was
ClearedPollsSilent ==
  \A t \in 1..MaxTasks :
    (inFlight'[t] < inFlight[t] /\ ~IntervalSet(t)) => remeshStatus' = remeshStatus

\* C27: onRemeshComplete is invoked at most once per remesh task id, even
\* when a status poll is still in flight when the next interval tick fires
\* and both responses report SUCCEEDED, and no poll response changes
\* remeshStatus after the interval has been cleared.
C27_CompleteOncePerTask == []CompletedAtMostOnce /\ [][ClearedPollsSilent]_vars

\* ------------------------------------------------------------- C28 ----
\* C28: remesh status polling eventually stops: once remeshStatus is
\* "processing" it eventually becomes "completed" or "failed", even if every
\* status request fails or the task never reports a terminal status.
C28_PollingStops ==
  (remeshStatus = "processing") ~> (remeshStatus \in {"completed", "failed"})

\* ------------------------------------------------------------- C29 ----
\* the user's balance is not negative
BalanceNotNegative == db.credits >= 0

\* a request that is answered 402, 400, 401 or 404 has created no upstream
\* task, and its answer changes no balance, generation or transaction
RejectedSilent ==
  \A i \in 1..Len(requests) :
    (requests[i].status = 0 /\ requests'[i].status \in {400, 401, 402, 404})
      => /\ requests[i].at \in {"auth", "findUnique", "json"}
         /\ db' = db
         /\ meshyTasks' = meshyTasks

\* C29: a user's credit balance never becomes negative, for any interleaving
\* of concurrent POST requests to the remesh and multi-image routes: each
\* request that deducts credits does so only while the balance is at least
\* the cost, and a request rejected with 402, 400, 401 or 404 creates no
\* upstream task and changes no balance, generation or transaction record.
C29_BalanceNeverNegative == []BalanceNotNegative /\ [][RejectedSilent]_vars

\* ------------------------------------------------------------- C30 ----
\* C30: the webhook credits a checkout session at most once: however often
\* the same checkout.session.completed event is delivered, and also when it
\* is retried after a failure that returned 500, the user's credits are
\* incremented by the package amount once, and one PURCHASE transaction and
\* one creditPackage record exist for the session once a delivery has been
\* processed.
C30_CreditedOnce ==
  session.credits # 0 =>
    /\ account.credits <= session.credits
    /\ account.purchases <= 1
    /\ account.packages <= 1
    /\ (\E i \in 1..Len(deliveries) : deliveries[i].status = 200)
         => account = [credits |-> session.credits, purchases |-> 1, packages |-> 1]

====
